---------------------------- MODULE Spec2Model ----------------------------
(***************************************************************************)
(* Incremental OCR-to-record pipelines of alkalinetrio-listings.           *)
(*                                                                         *)
(* Three scripts are modelled, one per value of `prog`:                    *)
(*   "cloud"  src/cloudinary_ocr_automator.py   main()                     *)
(*   "tess"   src/extract_ebay_data.py          TesseractEbayExtractor     *)
(*   "ebay"   src/extract_ebay.py               update_listings()          *)
(* A behaviour is a sequence of runs of one script against its persisted   *)
(* artifact.  The image source and the OCR backend are the environment:    *)
(* every listing and every OCR answer is a nondeterministic input.         *)
(***************************************************************************)
EXTENDS Naturals, Sequences, FiniteSets

----------------------------------------------------------------------------
(* Bounds of the model *)

\* runs of the script per behaviour
MaxRuns == 2
\* images in one source listing
MaxImages == 2
\* records of the artifact found on disk before the first run
MaxSeed == 1
\* images in the listing of a long TesseractEbayExtractor run
MaxBatch == 12
\* lines of an OCR text given to an extractor on its own
MaxLines == 3

----------------------------------------------------------------------------
(* Constants of the scripts *)

\* error_msg[:50] in main
ErrTitleLen == 50
\* len(line) > 20 in extract_title
TitleMinLen == 20
\* (i + 1) % 10 == 0 in _process_images
SaveEvery == 10

----------------------------------------------------------------------------
(* Generic helpers *)

\* Python's None and a present value
None == << >>
Some(x) == << x >>

Min(a, b) == IF a <= b THEN a ELSE b

Last(s) == s[Len(s)]

SetMin(S) == CHOOSE x \in S : \A y \in S : x <= y

\* s[:n]
Take(s, n) == SubSeq(s, 1, Min(n, Len(s)))

Range(s) == { s[i] : i \in 1..Len(s) }

\* r.get(k, default)
Get(r, k, default) == IF k \in DOMAIN r THEN r[k] ELSE default

RECURSIVE Flatten(_)
Flatten(lines) ==
    IF lines = << >> THEN << >> ELSE Head(lines) \o Flatten(Tail(lines))

\* the sequences over S of length at most n
SeqsUpTo(S, n) == UNION { [1..k -> S] : k \in 0..n }

\* the sequences of SeqsUpTo(S, n) without a repeated entry
DistinctSeqs(S, n) ==
    { s \in SeqsUpTo(S, n) : \A i, j \in 1..Len(s) : s[i] = s[j] => i = j }

\* the selections of at most n entries of the sequence `all`, in its order
Selections(all, n) ==
    { s \in DistinctSeqs(Range(all), n) :
        \A i, j \in 1..Len(s) :
           i < j => (CHOOSE k \in 1..Len(all) : all[k] = s[i])
                      < (CHOOSE k \in 1..Len(all) : all[k] = s[j]) }

----------------------------------------------------------------------------
(* OCR text: a sequence of lines, each a sequence of whitespace-separated  *)
(* tokens.  The regular expressions of the extractors are modelled on      *)
(* tokens through the tables below (which tokens a sub-pattern accepts).   *)

\* Sold  (re.IGNORECASE)
SoldWords == { "Sold" }
\* [A-Za-z]{3}
Mon3 == { "Oct" }
\* [A-Za-z]+
Letters == { "Sold", "Oct", "Alkaline", "Trio", "Goddamnit", "Vinyl", "LP",
             "Brand", "New", "positive" }
\* \d{1,2},?
DayToks == { "11," }
\* \d{4}
YearToks == { "2025" }
\* New | Used | Pre-Owned at the start of a token
StopWords == { "New" }
BrandWords == { "Brand" }
\* \$\d+
DollarDigit == { "$24.99", "$30.00", "$5" }
\* \$(\d+\.\d{2})  and its group
DecPriceToks == { "$24.99", "$30.00" }
PriceDec(t) == CASE t = "$24.99" -> "24.99" [] t = "$30.00" -> "30.00"
\* \$(\d+)  and its group
PriceInt(t) == CASE t = "$24.99" -> "24" [] t = "$30.00" -> "30" [] t = "$5" -> "5"
\* [a-zA-Z0-9_-]+ over a whole token
Handles == Letters \cup { "2025", "-", "recordstore22" }
\* \d{2,3}(?:\.\d+)?%
PctToks == { "100.0%", "100%" }
\* 100%
Pct100 == { "100%" }
PositiveWords == { "positive" }
\* seller[:\s]+
SellerLabel == { "Seller:" }

\* len(token)
TokLen(t) ==
    CASE t \in { "-" } -> 1
      [] t \in { "LP", "$5" } -> 2
      [] t \in { "Oct", "0ct", "Jan", "11,", "New" } -> 3
      [] t \in { "Sold", "S01d", "2025", "Trio", "Tri0", "100%" } -> 4
      [] t \in { "Vinyl", "Viny1", "Brand", "Ended" } -> 5
      [] t \in { "$24.99", "$30.00", "100.0%" } -> 6
      [] t \in { "Seller:", "Se11er:" } -> 7
      [] t \in { "Alkaline", "A1ka1ine", "positive", "p0sitive" } -> 8
      [] t \in { "Goddamnit", "G0ddamnit" } -> 9
      [] t \in { "recordstore22", "rec0rdst0re22" } -> 13

L_date == << "Sold", "Oct", "11,", "2025" >>
L_title == << "Alkaline", "Trio", "-", "Goddamnit", "Vinyl", "LP" >>
L_cond == << "Brand", "New" >>
L_price == << "$24.99" >>
L_ended == << "Ended", "Jan", "11,", "2025" >>
L_seller == << "recordstore22", "100.0%", "positive" >>
L_seller100 == << "recordstore22", "100%", "positive" >>

\* "Sold Oct 11, 2025 Alkaline Trio - Goddamnit Vinyl LP Brand New $24.99
\*  recordstore22 100.0% positive"
T_full == << L_date, L_title, L_cond, L_price, L_seller >>
T_noprice == << L_date, L_title, L_cond, L_seller100 >>
T_ended == << L_ended, L_title, L_cond, L_price, L_seller >>
T_empty == << >>


----------------------------------------------------------------------------
(* Exception messages: str(e), a sequence of characters *)

Pad(n) == [i \in 1..n |-> "x"]

\* requests.get raising (transport failure)
M_timeout == << "R", "e", "a", "d", " ", "t", "i", "m", "e", "d", " ", "o", "u", "t" >>
\* str(KeyError('success')), str(KeyError('ParsedResults')), ...
M_key_success == << "'", "s", "u", "c", "c", "e", "s", "s", "'" >>
M_key_results == << "'", "P", "a", "r", "s", "e", "d", "R", "e", "s", "u", "l", "t", "s", "'" >>
M_key_text == << "'", "P", "a", "r", "s", "e", "d", "T", "e", "x", "t", "'" >>
M_index == << "l", "i", "s", "t", " ", "i", "n", "d", "e", "x", " ", "o", "u", "t", " ", "o", "f", " ", "r", "a", "n", "g", "e" >>
P_ocr_error == << "O", "C", "R", " ", "e", "r", "r", "o", "r", ":", " " >>
P_ocr_failed == << "O", "C", "R", " ", "f", "a", "i", "l", "e", "d", ":", " " >>
P_error == << "E", "r", "r", "o", "r", ":", " " >>
\* response.text of a non-200 answer (an HTML error page) and an engine message
B_http == Pad(45)
B_engine == << "E", "2", "1", "6" >>

----------------------------------------------------------------------------
(* Python exceptions and the file holding the artifact *)

\* the outcome of a call: a raised exception or a returned value
Raise(type, m) == [ok |-> FALSE, type |-> type, msg |-> m]
Return(v) == [ok |-> TRUE, val |-> v]

\* an except clause that names one class only
CatchesExact(handler, type) == handler = type

\* whether `except handler:` catches an exception of class `type`
Catches(handler, type) == handler = "Exception" \/ handler = type

\* What open(path, 'w') followed by json.dump can do: succeed, fail on open
\* (the file is left as it was) or fail during the dump (the file is cut).
WriteOutcomes == { "ok", "open_fails", "dump_fails" }

\* a write whose failure is swallowed
write_json_silent(file, content, outcome) ==
    IF outcome = "ok" THEN [state |-> "ok", content |-> content, raised |-> ""]
    ELSE [state |-> file.state, content |-> file.content, raised |-> ""]

\* with open(path, 'w') as f: json.dump(content, f)
write_json(file, content, outcome) ==
    CASE outcome = "ok" ->
           [state |-> "ok", content |-> content, raised |-> ""]
      [] outcome = "open_fails" ->
           [state |-> file.state, content |-> file.content, raised |-> "OSError"]
      [] outcome = "dump_fails" ->
           [state |-> "malformed", content |-> << >>, raised |-> "OSError"]

----------------------------------------------------------------------------
(* src/cloudinary_ocr_automator.py *)

\* public_id of a Cloudinary resource: its path, split at '/'
PublicIds == << << "ws", "a" >>, << "ws", "b" >>, << "ws", "old", "a" >> >>

\* res['secure_url']
SecureUrl(public_id) == << "https:", "res.cloudinary.com" >> \o public_id

\* what list_cloudinary_images can return: each resource once, in the
\* order of the server
CloudListings ==
    { [i \in 1..Len(s) |-> << SecureUrl(s[i]), s[i] >>] :
        s \in Selections(PublicIds, MaxImages) }

\* what the OCR endpoint can answer to requests.get(ocr_url, params)
OcrResponses ==
    { [t |-> "raise", msg |-> M_timeout],
      [t |-> "http", status |-> 403, text |-> B_http],
      [t |-> "http", status |-> 200, OCRExitCode |-> 3, ErrorMessage |-> B_engine],
      [t |-> "http", status |-> 200, OCRExitCode |-> 1, ParsedResults |-> << >>] }
    \cup
    { [t |-> "http", status |-> 200, OCRExitCode |-> 1,
       ParsedResults |-> << [ParsedText |-> x] >>] : x \in { T_full, T_noprice } }

ocr_extract_text(response) ==
    IF response.t = "raise" THEN Raise("ConnectionError", response.msg)
    ELSE IF response.status # 200
         THEN Raise("Exception", P_ocr_error \o response.text)
    ELSE IF Get(response, "OCRExitCode", 0) # 1
         THEN Raise("Exception", P_ocr_failed \o Get(response, "ErrorMessage", << >>))
    ELSE IF "ParsedResults" \notin DOMAIN response THEN Raise("KeyError", M_key_results)
    ELSE IF response.ParsedResults = << >> THEN Raise("IndexError", M_index)
    ELSE IF "ParsedText" \notin DOMAIN response.ParsedResults[1]
         THEN Raise("KeyError", M_key_text)
    ELSE Return(response.ParsedResults[1].ParsedText)

\* clean_text: newlines and runs of whitespace become single spaces
clean_text(raw_text) == Flatten(raw_text)

\* Sold\s+[A-Za-z]{3}\s+\d{1,2},?\s+\d{4} matched at token i
SoldDateAt(toks, i) ==
    /\ i + 3 <= Len(toks)
    /\ toks[i] \in SoldWords
    /\ toks[i + 1] \in Mon3
    /\ toks[i + 2] \in DayToks
    /\ toks[i + 3] \in YearToks

sold_date_match(toks) ==
    LET S == { i \in 1..Len(toks) : SoldDateAt(toks, i) }
    IN  IF S = {} THEN None
        ELSE Some(SubSeq(toks, SetMin(S) + 1, SetMin(S) + 3))

\* (?:Brand New|Pre-Owned|New|Used|\$\d+) matched at token j
StopAt(toks, j) ==
    \/ toks[j] \in StopWords
    \/ toks[j] \in DollarDigit
    \/ toks[j] \in BrandWords /\ j + 1 <= Len(toks) /\ toks[j + 1] \in StopWords

\* the stop tokens that can end a title which starts at token i + 4
TitleStops(toks, i) == { j \in (i + 5)..Len(toks) : StopAt(toks, j) }

title_match(toks) ==
    LET S == { i \in 1..Len(toks) : SoldDateAt(toks, i) /\ TitleStops(toks, i) # {} }
    IN  IF S = {} THEN None
        ELSE Some(SubSeq(toks, SetMin(S) + 4, SetMin(TitleStops(toks, SetMin(S))) - 1))

price_match(toks) ==
    LET S == { i \in 1..Len(toks) : toks[i] \in DecPriceToks }
    IN  IF S = {} THEN None ELSE Some(PriceDec(toks[SetMin(S)]))

seller_match(toks) ==
    LET S1 == { i \in 1..Len(toks) :
                  /\ i + 2 <= Len(toks)
                  /\ toks[i] \in Handles
                  /\ toks[i + 1] \in PctToks
                  /\ toks[i + 2] \in PositiveWords }
        S2 == { i \in 1..Len(toks) :
                  /\ i + 1 <= Len(toks)
                  /\ toks[i] \in SellerLabel
                  /\ toks[i + 1] \in Handles }
    IN  IF S1 # {} THEN Some(toks[SetMin(S1)])
        ELSE IF S2 # {} THEN Some(toks[SetMin(S2) + 1])
        ELSE None

parse_ocr_to_json(raw_text, url, public_id, now) ==
    LET toks == clean_text(raw_text)
    IN  [ sold_date |-> sold_date_match(toks),
          title |-> title_match(toks),
          sold_price |-> price_match(toks),
          seller |-> seller_match(toks),
          image_url |-> url,
          processed_at |-> now,
          public_id |-> Last(public_id) ]

\* the failure entry with the whole message as title
fail_entry_untruncated(error_msg, url, pid, now) ==
    [ success |-> "fail",
      sold_date |-> None,
      title |-> Some(P_error \o error_msg),
      sold_price |-> None,
      seller |-> None,
      image_url |-> url,
      processed_at |-> now,
      public_id |-> pid ]

\* the entry main stores when processing an image raised
fail_entry(error_msg, url, pid, now) ==
    [ success |-> "fail",
      sold_date |-> None,
      title |-> Some(P_error \o Take(error_msg, ErrTitleLen)),
      sold_price |-> None,
      seller |-> None,
      image_url |-> url,
      processed_at |-> now,
      public_id |-> pid ]

\* A Python dict in insertion order: a sequence of <<key, value>> pairs
DictKeys(d) == { d[i][1] : i \in 1..Len(d) }
DictGet(d, k) == d[CHOOSE i \in 1..Len(d) : d[i][1] = k][2]
\* d[k] = v
DictSet(d, k, v) ==
    IF k \in DictKeys(d)
    THEN [i \in 1..Len(d) |-> IF d[i][1] = k THEN << k, v >> ELSE d[i]]
    ELSE Append(d, << k, v >>)
\* list(d.values())
DictValues(d) == [i \in 1..Len(d) |-> d[i][2]]

\* a lookup that starts empty
by_public_id_empty(existing_data) == << >>

RECURSIVE by_public_id(_)
\* {entry.get('public_id'): entry for entry in existing_data if entry.get('public_id')}
by_public_id(existing_data) ==
    IF existing_data = << >> THEN << >>
    ELSE LET init == by_public_id(SubSeq(existing_data, 1, Len(existing_data) - 1))
             entry == Last(existing_data)
             key == Get(entry, "public_id", "")
         IN  IF key = "" THEN init ELSE DictSet(init, key, entry)

RECURSIVE filter_loop_fail_only(_, _)
\* the loop that queues the fail entries but not the reprocess ones
filter_loop_fail_only(all_images, d) ==
    IF all_images = << >> THEN << >>
    ELSE LET url == Head(all_images)[1]
             public_id == Head(all_images)[2]
             pid == Last(public_id)
             rest == filter_loop_fail_only(Tail(all_images), d)
         IN  IF pid \notin DictKeys(d)
             THEN << << url, public_id, "new" >> >> \o rest
             ELSE IF Get(DictGet(d, pid), "success", "fail") = "fail"
                  THEN << << url, public_id, "fail" >> >> \o rest
                  ELSE rest

RECURSIVE filter_loop(_, _)
filter_loop(all_images, d) ==
    IF all_images = << >> THEN << >>
    ELSE LET url == Head(all_images)[1]
             public_id == Head(all_images)[2]
             pid == Last(public_id)
             rest == filter_loop(Tail(all_images), d)
         IN  IF pid \notin DictKeys(d)
             THEN << << url, public_id, "new" >> >> \o rest
             ELSE LET success_status == Get(DictGet(d, pid), "success", "fail")
                  IN  IF success_status \in { "reprocess", "fail" }
                      THEN << << url, public_id, success_status >> >> \o rest
                      ELSE rest

\* the filter that looks at no existing entry
filter_images_unfiltered(all_images, existing_data) ==
    filter_loop(all_images, << >>)

filter_images_to_process(all_images, existing_data) ==
    filter_loop(all_images, by_public_id(existing_data))

\* main without the early return
returns_early_never(todo) == FALSE

\* Lines 240-242: main returns when nothing is to process
returns_early(todo) == Len(todo) = 0

\* load_existing_json: a missing or unreadable file is an empty list
load_existing_json(state, content) == IF state = "ok" THEN content ELSE << >>

\* One iteration of main's for loop (lines 256-292) on work item `item` with
\* the OCR endpoint answering `response`: the new existing_dict, and the
\* exception that leaves the loop, if any.
main_iteration(d, item, response, now) ==
    LET url == item[1]
        public_id == item[2]
        pid == Last(public_id)
        raw_text == ocr_extract_text(response)
        parsed == parse_ocr_to_json(raw_text.val, url, public_id, now)
        d1 == IF raw_text.ok THEN DictSet(d, pid, parsed) ELSE d
        \* parsed["success"] is a KeyError when the key is absent
        raised == IF ~raw_text.ok THEN raw_text
                  ELSE IF "success" \notin DOMAIN parsed
                       THEN Raise("KeyError", M_key_success)
                  ELSE Return(parsed)
    IN  IF raised.ok THEN [d |-> d1, exc |-> ""]
        ELSE IF Catches("Exception", raised.type)
             THEN [d |-> DictSet(d1, pid, fail_entry(raised.msg, url, pid, now)),
                   exc |-> ""]
        ELSE [d |-> d1, exc |-> raised.type]

\* the names bound in main when the commit message is built (line 337)
MainNames ==
    { "images", "output_path", "existing_data", "images_to_process", "new_count",
      "reprocess_count", "fail_count", "existing_dict", "success_count",
      "failed_count", "reprocess_needed", "results", "remote_path" }
\* the names the commit message reads
CommitMessageNames == { "new_images", "success_count", "failed_count" }

\* Lines 324-342: the FTP upload and the git commit, given whether the upload
\* and the git commands before the commit message succeed: what was invoked
\* and the exception that leaves main, if any.
publish(ftp_ok, git_ok) ==
    LET ftp == IF ftp_ok THEN { "ftp", "ftp_stored" } ELSE { "ftp" }
        \* upload_to_ftp re-raises; main catches Exception
        after_ftp == IF ftp_ok \/ Catches("Exception", "FTPError") THEN "" ELSE "FTPError"
        git_raised ==
            IF ~git_ok THEN "CalledProcessError"
            ELSE IF CommitMessageNames \subseteq MainNames THEN "" ELSE "NameError"
    IN  IF after_ftp # "" THEN [invoked |-> ftp, exc |-> after_ftp]
        ELSE IF git_raised = "" THEN [invoked |-> ftp \cup { "git", "git_pushed" }, exc |-> ""]
        ELSE IF Catches("CalledProcessError", git_raised)
             THEN [invoked |-> ftp \cup { "git" }, exc |-> ""]
        ELSE [invoked |-> ftp \cup { "git" }, exc |-> git_raised]

\* The artifact found before the first run: complete and reprocess records an
\* earlier revision of the script left, one per public_id (fail records are
\* what the runs of this revision add themselves).
SeedDate == << "Oct", "11,", "2025" >>
CloudSeedRecord(pid, st) ==
    [ success |-> st,
      sold_date |-> Some(SeedDate),
      title |-> Some(L_title),
      sold_price |-> IF st = "complete" THEN Some("24.99") ELSE None,
      seller |-> Some("recordstore22"),
      image_url |-> SecureUrl(<< "ws", pid >>),
      processed_at |-> 0,
      public_id |-> pid ]
SeedIds == << "a", "b", "c" >>
CloudSeeds ==
    { s \in SeqsUpTo({ CloudSeedRecord(p, st) :
                         p \in Range(SeedIds), st \in { "complete", "reprocess" } },
                     MaxSeed) :
        \A i \in 1..Len(s) : s[i].public_id = SeedIds[i] }

----------------------------------------------------------------------------
(* src/extract_ebay_data.py *)

M_decode == << "F", "a", "i", "l", "e", "d", " ", "t", "o", " ", "d", "e", "c", "o", "d", "e", " ", "i", "m", "a", "g", "e" >>
\* str(TypeError) of None[:50]
M_nonetype == << "'", "N", "o", "n", "e", "T", "y", "p", "e", "'", " ", "o", "b", "j", "e", "c", "t", " ", "i", "s", " ", "n", "o", "t", " ", "s", "u", "b", "s", "c", "r", "i", "p", "t", "a", "b", "l", "e" >>

\* The images the source (eBaySales.json or the scraped page) can name.  The
\* URL of an item changes when its image is uploaded again.
TessSources ==
    << [item_id |-> "a", image_url |-> "ua1"],
       [item_id |-> "a", image_url |-> "ua2"],
       [item_id |-> "b", image_url |-> "ub1"] >>

TessListings == Selections(TessSources, MaxImages)

\* What fetching and recognising one image can yield: the download raises,
\* the bytes do not decode, or Tesseract returns the text of the preprocessed
\* and of the original image.
TessAnswers ==
    { [t |-> "raise", msg |-> M_timeout],
      [t |-> "image", decoded |-> FALSE] }
    \cup
    { [t |-> "image", decoded |-> TRUE, text |-> x[1], text_original |-> x[2]] :
        x \in { << T_full, T_noprice >>, << T_empty, T_noprice >>,
                << T_empty, T_empty >> } }

\* hashlib.md5(image_url.encode()).hexdigest()
compute_image_hash(image_url) == << "md5", image_url >>

RECURSIVE SumLen(_)
SumLen(line) == IF line = << >> THEN 0 ELSE TokLen(Head(line)) + SumLen(Tail(line))

\* len(line) of a line of tokens joined by single spaces
LineLen(line) == IF line = << >> THEN 0 ELSE SumLen(line) + Len(line) - 1

RECURSIVE SumLines(_)
SumLines(text) == IF text = << >> THEN 0 ELSE LineLen(Head(text)) + SumLines(Tail(text))

\* len(text) of lines joined by newlines
TextLen(text) == IF text = << >> THEN 0 ELSE SumLines(text) + Len(text) - 1

extract_date(text) ==
    LET toks == Flatten(text)
        S1 == { i \in 1..Len(toks) :
                  /\ i + 3 <= Len(toks)
                  /\ toks[i] \in SoldWords
                  /\ toks[i + 1] \in Letters
                  /\ toks[i + 2] \in DayToks
                  /\ toks[i + 3] \in YearToks }
        S2 == { i \in 1..Len(toks) :
                  /\ i + 2 <= Len(toks)
                  /\ toks[i] \in Letters
                  /\ toks[i + 1] \in DayToks
                  /\ toks[i + 2] \in YearToks }
    IN  IF S1 # {} THEN Some(SubSeq(toks, SetMin(S1) + 1, SetMin(S1) + 3))
        ELSE IF S2 # {} THEN Some(SubSeq(toks, SetMin(S2), SetMin(S2) + 2))
        ELSE None

\* the extractor that takes the first $ amount, whatever its form
extract_price_first(text) ==
    LET toks == Flatten(text)
        S == { i \in 1..Len(toks) : toks[i] \in DollarDigit }
    IN  IF S = {} THEN None
        ELSE IF toks[SetMin(S)] \in DecPriceToks THEN Some(PriceDec(toks[SetMin(S)]))
        ELSE Some(PriceInt(toks[SetMin(S)]))

extract_price(text) ==
    LET toks == Flatten(text)
        S1 == { i \in 1..Len(toks) : toks[i] \in DecPriceToks }
        S2 == { i \in 1..Len(toks) : toks[i] \in DollarDigit }
    IN  IF S1 # {} THEN Some(PriceDec(toks[SetMin(S1)]))
        ELSE IF S2 # {} THEN Some(PriceInt(toks[SetMin(S2)]))
        ELSE None

\* tokens holding one of 'sold', 'positive', 'delivery', 'located', 'offer'
ExcludeToks == { "Sold", "positive" }
\* tokens holding one of '-', '(', ')', ','
PunctToks == { "-", "11," }

\* any(term in line.lower() for term in exclude_terms)
HasExcluded(line) ==
    \/ \E i \in 1..Len(line) : line[i] \in ExcludeToks
    \/ \E i \in 1..(Len(line) - 1) : line[i] \in BrandWords /\ line[i + 1] \in StopWords

TitleLine(line) ==
    /\ LineLen(line) > TitleMinLen
    /\ ~HasExcluded(line)
    /\ \E i \in 1..Len(line) : line[i] \in PunctToks

extract_title(text) ==
    LET S == { i \in 1..Len(text) : TitleLine(text[i]) }
    IN  IF S = {} THEN None ELSE Some(text[SetMin(S)])

extract_seller(text) ==
    LET toks == Flatten(text)
        S == { i \in 1..Len(toks) :
                 /\ i + 2 <= Len(toks)
                 /\ toks[i] \in Handles
                 /\ toks[i + 1] \in Pct100
                 /\ toks[i + 2] \in PositiveWords }
    IN  IF S = {} THEN None ELSE Some(toks[SetMin(S)])

\* an extraction that looks at no hash, fails and marks every URL as seen
extract_unchecked(image_url, item_id, seen, answer, now) ==
    [ result |-> Some([ item_id |-> item_id, image_url |-> image_url,
                        image_hash |-> compute_image_hash(image_url),
                        success |-> FALSE, processed_at |-> now,
                        error |-> M_timeout ]),
      seen |-> seen \cup { compute_image_hash(image_url) } ]

\* extract_from_image_url: the record returned (None for a duplicate) and the
\* new seen_hashes, when fetching the image yields `answer`
extract_from_image_url(image_url, item_id, seen, answer, now) ==
    LET h == compute_image_hash(image_url)
        failed(msg) ==
            [ item_id |-> item_id, image_url |-> image_url, image_hash |-> h,
              success |-> FALSE, processed_at |-> now, error |-> msg ]
    IN  IF h \in seen THEN [result |-> None, seen |-> seen]
        ELSE IF answer.t = "raise"
             THEN [result |-> Some(failed(answer.msg)), seen |-> seen]
        ELSE IF ~answer.decoded
             THEN [result |-> Some(failed(M_decode)), seen |-> seen]
        ELSE LET full_text ==
                     IF TextLen(answer.text) > TextLen(answer.text_original)
                     THEN answer.text ELSE answer.text_original
                 done ==
                     [ item_id |-> item_id, image_url |-> image_url,
                       image_hash |-> h, success |-> TRUE, processed_at |-> now,
                       sold_date |-> extract_date(full_text),
                       title |-> extract_title(full_text),
                       sold_price |-> extract_price(full_text),
                       seller |-> extract_seller(full_text),
                       raw_text |-> full_text ]
                 \* result.get('title', 'N/A')[:50] raises on a None title,
                 \* after success and seen_hashes were set
                 logged ==
                     IF done.title = None
                     THEN [ item_id |-> item_id, image_url |-> image_url,
                            image_hash |-> h, success |-> TRUE, processed_at |-> now,
                            sold_date |-> done.sold_date, title |-> None,
                            sold_price |-> done.sold_price, seller |-> done.seller,
                            raw_text |-> full_text, error |-> M_nonetype ]
                     ELSE done
             IN  [result |-> Some(logged), seen |-> seen \cup { h }]

\* _load_existing_data
load_results(state, content) == IF state = "ok" THEN content ELSE << >>
\* _load_existing_data: the image_hash of every loaded result
load_seen_hashes(state, content) ==
    IF state = "ok"
    THEN { content[i].image_hash :
             i \in { j \in 1..Len(content) : "image_hash" \in DOMAIN content[j] } }
    ELSE {}

RECURSIVE Filter(_, _)
Filter(s, keep) ==
    IF s = << >> THEN << >>
    ELSE (IF Head(s) \in keep THEN << Head(s) >> ELSE << >>) \o Filter(Tail(s), keep)

\* [r for r in self.results if not r.get('success')]
failed_of(rs) == Filter(rs, { r \in Range(rs) : ~Get(r, "success", FALSE) })

\* [r for r in self.results if r['item_id'] != item['item_id']]
without_item(rs, item) == Filter(rs, { r \in Range(rs) : r.item_id # item.item_id })

----------------------------------------------------------------------------
(* src/extract_ebay.py *)

\* title_parts holds at most 5 lines; the price and the seller are looked
\* for in the next 8 lines
MaxTitleParts == 5
PriceWindow == 8
SellerWindow == 8

\* text.replace('Il','11').replace('l','1').replace('I','1')
\*     .replace('O','0').replace('o','0') on one token
CleanTok(t) ==
    CASE t = "Sold" -> "S01d"
      [] t = "Oct" -> "0ct"
      [] t = "Alkaline" -> "A1ka1ine"
      [] t = "Trio" -> "Tri0"
      [] t = "Goddamnit" -> "G0ddamnit"
      [] t = "Vinyl" -> "Viny1"
      [] t = "recordstore22" -> "rec0rdst0re22"
      [] t = "positive" -> "p0sitive"
      [] t = "Seller:" -> "Se11er:"
      [] OTHER -> t

\* clean_ocr_text: the character replacements, then re.sub(r'\s+', ' ', text),
\* which turns every newline into a space
clean_ocr_text(text) ==
    LET toks == Flatten(text) IN [i \in 1..Len(toks) |-> CleanTok(toks[i])]

\* [line.strip() for line in cleaned_text.split('\n') if line.strip()]
split_lines(cleaned_text) ==
    IF cleaned_text = << >> THEN << >> ELSE << cleaned_text >>

\* (Sold|Ended)  (re.I)
AnchorWords == { "Sold", "Ended" }
\* (Jan|Feb|...|Dec)
EbayMonths == { "Jan", "Oct" }
\* ^(Brand New|Pre-Owned|New with tags|Open box|Used|For parts|New)$
CondLines == { << "Brand", "New" >>, << "New" >> }
\* first tokens of ^(\d+\s*(bid|watcher)|or Best|Buy It Now|Located|View|Sell|Free|Watch|\+\$)
NoiseStart == { "Seller:" }
\* tokens with three letters in a row: [a-zA-Z]{3,}
Word3 == { "Sold", "Oct", "Jan", "Ended", "Alkaline", "A1ka1ine", "Trio", "Tri0",
           "Goddamnit", "G0ddamnit", "Vinyl", "Viny1", "Brand", "New",
           "recordstore22", "rec0rdst0re22", "positive", "p0sitive", "Seller:" }
\* tokens without a word character
NonWordToks == { "-" }
\* re.sub(r'^\W+', '', token) and re.sub(r'\W+$', '', token)
LStripTok(t) == CASE t = "$24.99" -> "24.99" [] t = "$5" -> "5" [] OTHER -> t
RStripTok(t) ==
    CASE t = "11," -> "11" [] t = "100.0%" -> "100.0" [] t = "100%" -> "100"
      [] t = "Seller:" -> "Seller" [] t = "Se11er:" -> "Se11er" [] OTHER -> t
\* [a-zA-Z0-9_-]+ over a whole token, cleaned tokens included
EbayHandles ==
    Handles \cup { "Ended", "Jan", "S01d", "0ct", "A1ka1ine", "Tri0", "G0ddamnit",
                   "Viny1", "rec0rdst0re22", "p0sitive" }
\* ^[a-zA-Z][a-zA-Z0-9_-]{2,}$
Usernames == EbayHandles \ { "2025", "-", "LP", "0ct" }
\* ^\d+\.?\d*\s*%?
DigitStart == { "11,", "2025", "100.0%", "100%" }
\* re.sub(r'^(Pre|Brand|New|Ouinect|Oninect)', '', seller); "" is the empty string
SellerStrip(t) == IF t \in { "Brand", "New" } THEN "" ELSE t
HandleLen(t) == IF t = "" THEN 0 ELSE TokLen(t)

date_line(line) ==
    /\ Len(line) >= 4
    /\ line[1] \in AnchorWords
    /\ line[2] \in EbayMonths
    /\ line[3] \in DayToks
    /\ line[4] \in YearToks

RECURSIVE DropLead(_)
DropLead(line) ==
    IF line # << >> /\ Head(line) \in NonWordToks THEN DropLead(Tail(line)) ELSE line

RECURSIVE DropTrail(_)
DropTrail(line) ==
    IF line # << >> /\ Last(line) \in NonWordToks
    THEN DropTrail(SubSeq(line, 1, Len(line) - 1)) ELSE line

\* re.sub(r'^\W+', '', cur) then re.sub(r'\W+$', '', cur)
strip_nonword(line) ==
    LET l1 == DropTrail(DropLead(line))
    IN  [i \in 1..Len(l1) |->
            LET a == IF i = 1 THEN LStripTok(l1[i]) ELSE l1[i]
            IN  IF i = Len(l1) THEN RStripTok(a) ELSE a]

\* a title loop that leaves the cursor on the date line
title_loop_back(lines, i, title_parts) == [i |-> i - 1, parts |-> title_parts]

RECURSIVE title_loop(_, _, _)
\* lines 155-183; i is the index of the line read next (lines[i], from 1)
title_loop(lines, i, title_parts) ==
    IF i > Len(lines) \/ Len(title_parts) >= MaxTitleParts
    THEN [i |-> i, parts |-> title_parts]
    ELSE LET cur == lines[i]
         IN  IF cur \in CondLines THEN [i |-> i + 1, parts |-> title_parts]
             ELSE IF cur[1] \in DollarDigit THEN [i |-> i, parts |-> title_parts]
             ELSE IF cur[1] \in NoiseStart THEN title_loop(lines, i + 1, title_parts)
             ELSE IF LineLen(cur) < 3 THEN title_loop(lines, i + 1, title_parts)
             ELSE IF \E k \in 1..Len(cur) : cur[k] \in Word3
                  THEN title_loop(lines, i + 1, Append(title_parts, strip_nonword(cur)))
             ELSE title_loop(lines, i + 1, title_parts)

RECURSIVE price_loop(_, _, _)
\* lines 188-198
price_loop(lines, i, left) ==
    IF left = 0 \/ i > Len(lines) THEN [i |-> i, price |-> None]
    ELSE LET cur == lines[i]
             S == { k \in 1..Len(cur) : cur[k] \in DollarDigit }
         IN  IF S # {} THEN [i |-> i + 1, price |-> Some(cur[SetMin(S)])]
             ELSE price_loop(lines, i + 1, left - 1)

\* a seller search that starts over from the first line
seller_loop_rewind(lines, i, left) == [i |-> 1, seller |-> None]

RECURSIVE seller_loop(_, _, _)
\* lines 201-229
seller_loop(lines, i, left) ==
    IF left = 0 \/ i > Len(lines) THEN [i |-> i, seller |-> None]
    ELSE LET cur == lines[i]
             S == { k \in 1..Len(cur) :
                      /\ k + 2 <= Len(cur)
                      /\ cur[k] \in EbayHandles
                      /\ cur[k + 1] \in PctToks
                      /\ cur[k + 2] \in PositiveWords }
             seller == IF S = {} THEN "" ELSE SellerStrip(cur[SetMin(S)])
         IN  IF Len(cur) >= 2 /\ cur[1] \in AnchorWords THEN [i |-> i, seller |-> None]
             ELSE IF S # {} /\ HandleLen(seller) > 2
                  THEN [i |-> i + 1, seller |-> Some(seller)]
             ELSE IF /\ Len(cur) = 1 /\ cur[1] \in Usernames
                     /\ i + 1 <= Len(lines) /\ lines[i + 1][1] \in DigitStart
                  THEN [i |-> i + 2, seller |-> Some(cur[1])]
             ELSE seller_loop(lines, i + 1, left - 1)

RECURSIVE parse_lines(_, _)
\* the while loop of extract_ebay_listings (lines 133-241), from line i on
parse_lines(lines, i) ==
    IF i > Len(lines) THEN << >>
    ELSE IF ~date_line(lines[i]) THEN parse_lines(lines, i + 1)
    ELSE LET t == title_loop(lines, i + 1, << >>)
             p == price_loop(lines, t.i, PriceWindow)
             s == seller_loop(lines, p.i, SellerWindow)
             listing == [ status |-> lines[i][1],
                          date |-> lines[i],
                          listing_title |-> Flatten(t.parts),
                          sold_price |-> p.price,
                          seller |-> s.seller ]
         IN  (IF listing.listing_title # << >> /\ listing.sold_price # None
              THEN << listing >> ELSE << >>) \o parse_lines(lines, s.i)

\* What fetching and recognising one image can yield
EbayAnswers ==
    { [t |-> "raise", msg |-> M_timeout] }
    \cup { [t |-> "text", text |-> x] : x \in { T_ended, T_full, T_empty } }

\* extract_ebay_listings: any exception is caught and gives no listing
extract_ebay_listings(answer) ==
    IF answer.t = "raise" THEN << >>
    ELSE parse_lines(split_lines(clean_ocr_text(answer.text)), 1)

\* The gallery items fetch_all_image_urls can return: a dict data-id -> src
EbayListings ==
    { [i \in 1..Len(s) |-> << s[i], << "src", s[i] >> >>] :
        s \in DistinctSeqs({ "a", "b", "c" }, MaxImages) }

\* f"{item.get('listing_title', '')}|{item.get('sold_price', '')}"
combo(item) == << Get(item, "listing_title", << >>), "|", Get(item, "sold_price", << >>) >>

\* The artifact found before the first run of update_listings
EbaySeedRecord(image_id, price) ==
    [ status |-> "Sold", date |-> L_date, listing_title |-> L_title,
      sold_price |-> Some(price), seller |-> None,
      image_id |-> image_id, processed_at |-> 0 ]
EbaySeeds ==
    SeqsUpTo({ EbaySeedRecord("a", "$24.99"), EbaySeedRecord("b", "$5") }, MaxSeed)

\* add_listings with the test of line 291 left out
RECURSIVE add_listings_all(_, _, _, _, _)
add_listings_all(listings, img_id, now, new, combos) ==
    IF listings = << >> THEN [new |-> new, combos |-> combos]
    ELSE LET listing == Head(listings)
         IN  add_listings_all(Tail(listings), img_id, now,
                              Append(new, [ status |-> listing.status, date |-> listing.date,
                                            listing_title |-> listing.listing_title,
                                            sold_price |-> listing.sold_price,
                                            seller |-> listing.seller,
                                            image_id |-> img_id, processed_at |-> now ]),
                              combos \cup { combo(listing) })

\* Lines 288-298: the listings of image img_id that are no duplicate, appended
\* to new_listings, and the combos seen so far
RECURSIVE add_listings(_, _, _, _, _)
add_listings(listings, img_id, now, new, combos) ==
    IF listings = << >> THEN [new |-> new, combos |-> combos]
    ELSE LET listing == Head(listings)
             c == combo(listing)
         IN  IF c \in combos THEN add_listings(Tail(listings), img_id, now, new, combos)
             ELSE add_listings(Tail(listings), img_id, now,
                               Append(new, [ status |-> listing.status,
                                             date |-> listing.date,
                                             listing_title |-> listing.listing_title,
                                             sold_price |-> listing.sold_price,
                                             seller |-> listing.seller,
                                             image_id |-> img_id,
                                             processed_at |-> now ]),
                               combos \cup { c })

----------------------------------------------------------------------------
(* State *)

VARIABLES
    prog,               \* the script this behaviour runs
    pc,                 \* where the current run is
    run,                \* runs started so far; also the clock processed_at reads
    file,               \* the artifact on disk: [state, content]
    exc,                \* the exception that ended the last run, "" if none
    replay,             \* the environment: free, or fixed listing and answers
    images,             \* the source listing of the current run
    idx,                \* iterations of the current loop done so far
    images_to_process,  \* cloud: the work list
    existing_dict,      \* cloud: main's dict of entries by public_id
    results,            \* tess: self.results
    seen_hashes,        \* tess: self.seen_hashes
    failed_items,       \* tess: the list _retry_failed_items walks
    retry_errors,       \* tess: the retry_errors argument
    all_listings,       \* ebay
    existing_ids,       \* ebay
    existing_combos,    \* ebay
    new_listings,       \* ebay
    \* history of the current run
    start,              \* the file as the run found it
    attempted,          \* the items the main loop has handled, in order
    fetched,            \* the URLs sent to download / OCR
    last,               \* the item handled last and what its OCR call gave
    writes,             \* how often the artifact file was opened for writing
    published,          \* the publish steps invoked
    rested,             \* time.sleep(delay) ran since the last OCR call of the run
    \* extract_ebay_listings run on its own, step by step
    el_lines,           \* lines
    el_i,               \* i, as the index of the line read next, from 1
    el_pc,              \* where the while loop is
    el_listing,         \* listing
    el_listings,        \* listings
    el_spans,           \* per date anchor taken up, the lines it consumed
    \* the price extractors run on their own
    pr_text,            \* the OCR text
    pr_pc,              \* "in" before, "out" after the extraction
    pr_cloud,           \* sold_price of parse_ocr_to_json
    pr_tess             \* what extract_price returns

cloudVars == << images_to_process, existing_dict >>
tessVars == << results, seen_hashes, failed_items, retry_errors >>
ebayVars == << all_listings, existing_ids, existing_combos, new_listings >>
histVars == << start, attempted, fetched, last, writes, published >>
parseVars == << el_lines, el_i, el_pc, el_listing, el_listings, el_spans >>
priceVars == << pr_text, pr_pc, pr_cloud, pr_tess >>
vars == << prog, pc, run, file, exc, replay, images, idx,
           cloudVars, tessVars, ebayVars, histVars, rested, parseVars, priceVars >>

Missing == [state |-> "missing", content |-> << >>]
Stored(content) == [state |-> "ok", content |-> content]
Free == [on |-> FALSE]

Seeds(p) ==
    CASE p = "cloud" -> CloudSeeds
      [] p = "tess" -> { << >> }
      [] p = "ebay" -> EbaySeeds

InitCommon ==
    /\ prog \in { "cloud", "tess", "ebay" }
    /\ pc = "idle"
    /\ run = 0
    /\ file \in { IF c = << >> THEN Missing ELSE Stored(c) : c \in Seeds(prog) }
    /\ exc = ""
    /\ images = << >>
    /\ idx = 0
    /\ images_to_process = << >>
    /\ existing_dict = << >>
    /\ results = << >>
    /\ seen_hashes = {}
    /\ failed_items = << >>
    /\ retry_errors = TRUE
    /\ all_listings = << >>
    /\ existing_ids = {}
    /\ existing_combos = {}
    /\ new_listings = << >>
    /\ start = Missing
    /\ attempted = << >>
    /\ fetched = {}
    /\ last = None
    /\ writes = 0
    /\ published = {}
    /\ rested = TRUE

\* extract_ebay_listings is not run on its own
ParseOff ==
    /\ el_lines = << >>
    /\ el_i = 1
    /\ el_pc = "off"
    /\ el_listing = None
    /\ el_listings = << >>
    /\ el_spans = << >>

\* the price extractors are not run on their own
PriceOff ==
    /\ pr_text = << >>
    /\ pr_pc = "off"
    /\ pr_cloud = None
    /\ pr_tess = None

Init == InitCommon /\ ParseOff /\ PriceOff /\ replay = Free

\* the environment's choice among S, or the fixed one when replaying
Listing(S) == IF replay.on THEN { replay.listing } ELSE S
Answer(url, S) == IF replay.on THEN { replay.answer[url] } ELSE S
\* the replayed runs meet no failing disk, server or remote, unless the
\* replay says that the disk may fail
Outcome(S) == IF replay.on /\ ~Get(replay, "faults", FALSE) THEN { "ok" } ELSE S
Works == IF replay.on THEN { TRUE } ELSE BOOLEAN

CanStart(p) == prog = p /\ pc \in { "idle", "done" } /\ run < MaxRuns

\* what every start of a run resets
Begin ==
    /\ run' = run + 1
    /\ start' = file
    /\ attempted' = << >>
    /\ fetched' = {}
    /\ last' = None
    /\ published' = {}
    /\ rested' = TRUE
    /\ idx' = 0
    /\ UNCHANGED << prog, parseVars, priceVars, replay >>

----------------------------------------------------------------------------
(* cloud: main() *)

\* list_cloudinary_images raises (a non-200 answer): main ends before loading
CloudListFails ==
    /\ CanStart("cloud")
    /\ Begin
    /\ pc' = "done"
    /\ exc' = "Exception"
    /\ images' = << >>
    /\ images_to_process' = << >>
    /\ existing_dict' = << >>
    /\ writes' = 0
    /\ UNCHANGED << file, tessVars, ebayVars >>

\* Lines 217-250: list, load, filter; return when nothing is to process
CloudStart ==
    /\ CanStart("cloud")
    /\ Begin
    /\ \E l \in Listing(CloudListings) :
         \E existing_data \in { load_existing_json(file.state, file.content) } :
         \E todo \in { filter_images_to_process(l, existing_data) } :
             /\ images' = l
             /\ images_to_process' = todo
             /\ existing_dict' =
                    IF returns_early(todo) THEN << >> ELSE by_public_id(existing_data)
             /\ pc' = IF returns_early(todo) THEN "done"
                      ELSE IF todo = << >> THEN "save"
                      ELSE "loop"
    /\ exc' = ""
    /\ writes' = 0
    /\ UNCHANGED << file, tessVars, ebayVars >>

\* Lines 256-297: one iteration of the for loop
CloudItem ==
    /\ prog = "cloud" /\ pc = "loop"
    /\ LET item == images_to_process[idx + 1]
       IN  \E response \in Answer(item[1], OcrResponses) :
             \E r \in { main_iteration(existing_dict, item, response, run) } :
                 /\ existing_dict' = r.d
                 /\ exc' = r.exc
                 /\ pc' = IF r.exc # "" THEN "done"
                          ELSE IF idx + 1 = Len(images_to_process) THEN "save"
                          ELSE "loop"
                 /\ attempted' = Append(attempted, item)
                 /\ fetched' = fetched \cup { item[1] }
                 /\ last' = Some([ key |-> Last(item[2]), url |-> item[1],
                                   ocr |-> ocr_extract_text(response) ])
                 \* lines 295-297: the wait, except after the last item
                 /\ rested' = (r.exc = "" /\ idx + 1 < Len(images_to_process))
    /\ idx' = idx + 1
    /\ UNCHANGED << prog, parseVars, priceVars, run, file, replay, images, images_to_process,
                    tessVars, ebayVars, start, writes, published >>

\* Lines 299-322: write the whole dict back
CloudSave ==
    /\ prog = "cloud" /\ pc = "save"
    /\ \E outcome \in Outcome(WriteOutcomes) :
         LET w == write_json(file, DictValues(existing_dict), outcome)
         IN  /\ file' = [state |-> w.state, content |-> w.content]
             /\ exc' = w.raised
             /\ pc' = IF w.raised = "" THEN "publish" ELSE "done"
    /\ writes' = writes + 1
    /\ last' = None
    /\ UNCHANGED << prog, parseVars, priceVars, rested, run, replay, images, idx, cloudVars, tessVars,
                    ebayVars,
                    start, attempted, fetched, published >>

\* Lines 324-342: FTP upload, git commit and push
CloudPublish ==
    /\ prog = "cloud" /\ pc = "publish"
    /\ \E ftp_ok \in Works, git_ok \in Works :
         LET r == publish(ftp_ok, git_ok)
         IN  /\ published' = r.invoked
             /\ exc' = r.exc
    /\ pc' = "done"
    /\ UNCHANGED << prog, parseVars, priceVars, rested, run, file, replay, images, idx, cloudVars, tessVars,
                    ebayVars, start, attempted, fetched, last, writes >>

----------------------------------------------------------------------------
(* tess: TesseractEbayExtractor(...).process_from_json / process_website *)

\* __init__ with _load_existing_data, then load_from_json or
\* scrape_cloudinary_images (both return [] on any error); lines 325-349
TessStart ==
    /\ CanStart("tess")
    /\ Begin
    /\ results' = load_results(file.state, file.content)
    /\ seen_hashes' = load_seen_hashes(file.state, file.content)
    /\ failed_items' = << >>
    /\ \E l \in Listing(TessListings), re \in BOOLEAN :
         /\ images' = l
         /\ retry_errors' = re
         /\ IF l = << >>
            THEN \E outcome \in Outcome(WriteOutcomes) :
                   LET w == write_json(file, results', outcome)
                   IN  /\ file' = [state |-> w.state, content |-> w.content]
                       /\ exc' = w.raised
                       /\ writes' = 1
                       /\ pc' = "done"
            ELSE /\ pc' = "loop"
                 /\ exc' = ""
                 /\ writes' = 0
                 /\ UNCHANGED file
    /\ UNCHANGED << cloudVars, ebayVars >>

\* what the download and OCR of image_url give; an image whose hash is seen
\* is not downloaded at all (lines 145-149)
NotFetched == [t |-> "none"]
Fetch(image_url) ==
    IF compute_image_hash(image_url) \in seen_hashes THEN { NotFetched }
    ELSE Answer(image_url, TessAnswers)

\* Lines 352-378: one iteration of the for loop of _process_images
TessItem ==
    /\ prog = "tess" /\ pc = "loop"
    /\ LET img_data == images[idx + 1]
       IN  \E answer \in Fetch(img_data.image_url) :
             \E r \in { extract_from_image_url(img_data.image_url, img_data.item_id,
                                                seen_hashes, answer, run) } :
                 /\ seen_hashes' = r.seen
                 /\ attempted' = Append(attempted, img_data)
                 /\ last' = Some([ key |-> img_data.item_id, url |-> img_data.image_url,
                                   skipped |-> r.result = None,
                                   answer |-> answer ])
                 /\ IF r.result = None
                    THEN UNCHANGED << results, file, writes, fetched, rested >>
                    ELSE /\ results' = Append(results, r.result[1])
                         /\ fetched' = fetched \cup { img_data.image_url }
                         /\ IF (idx + 1) % SaveEvery = 0
                            THEN \* a failing save is caught at line 376,
                                 \* past the time.sleep(delay) of line 374
                                 \E outcome \in Outcome(WriteOutcomes) :
                                    LET w == write_json(file, results', outcome)
                                    IN  /\ file' = [state |-> w.state,
                                                    content |-> w.content]
                                        /\ writes' = writes + 1
                                        /\ rested' = (w.raised = "")
                            ELSE /\ rested' = TRUE
                                 /\ UNCHANGED << file, writes >>
    /\ idx' = idx + 1
    /\ pc' = IF idx + 1 = Len(images) THEN "final" ELSE "loop"
    /\ UNCHANGED << prog, parseVars, priceVars, run, exc, replay, images, failed_items, retry_errors,
                    cloudVars, ebayVars, start, published >>

\* Lines 380-396: the final save, then the start of _retry_failed_items
TessFinal ==
    /\ prog = "tess" /\ pc = "final"
    /\ failed_items' = IF retry_errors THEN failed_of(results) ELSE << >>
    /\ \E outcome \in Outcome(WriteOutcomes) :
         LET w == write_json(file, results, outcome)
         IN  /\ file' = [state |-> w.state, content |-> w.content]
             /\ exc' = w.raised
             /\ pc' = IF w.raised # "" \/ failed_items' = << >> THEN "done" ELSE "retry"
    /\ writes' = writes + 1
    /\ idx' = 0
    /\ last' = None
    /\ UNCHANGED << prog, parseVars, priceVars, rested, run, replay, images, results, seen_hashes, retry_errors,
                    cloudVars, ebayVars, start, attempted, fetched, published >>

\* the retry loop with a record that fails again put back in the queue
TessRetryItem_requeue ==
    /\ prog = "tess" /\ pc = "retry"
    /\ LET item == failed_items[idx + 1]
           kept == without_item(results, item)
       IN  \E answer \in Fetch(item.image_url) :
             \E r \in { extract_from_image_url(item.image_url, item.item_id,
                                                seen_hashes, answer, run) } :
                 /\ seen_hashes' = r.seen
                 /\ results' = IF r.result = None THEN kept
                               ELSE Append(kept, r.result[1])
                 /\ fetched' = IF r.result = None THEN fetched
                               ELSE fetched \cup { item.image_url }
                 /\ failed_items' = IF r.result # None /\ ~r.result[1].success
                                   THEN Append(failed_items, r.result[1])
                                   ELSE failed_items
                 /\ last' = Some([ key |-> item.item_id, url |-> item.image_url,
                                   skipped |-> r.result = None,
                                   answer |-> answer ])
    \* line 410: the wait, whether or not the item was fetched
    /\ rested' = TRUE
    /\ idx' = idx + 1
    /\ pc' = IF idx + 1 = Len(failed_items') THEN "retry_save" ELSE "retry"
    /\ UNCHANGED << prog, parseVars, priceVars, run, file, exc, replay, images, retry_errors,
                    cloudVars, ebayVars, start, attempted, writes, published >>

\* Lines 398-413: one iteration of the retry loop
TessRetryItem ==
    /\ prog = "tess" /\ pc = "retry"
    /\ LET item == failed_items[idx + 1]
           kept == without_item(results, item)
       IN  \E answer \in Fetch(item.image_url) :
             \E r \in { extract_from_image_url(item.image_url, item.item_id,
                                                seen_hashes, answer, run) } :
                 /\ seen_hashes' = r.seen
                 /\ results' = IF r.result = None THEN kept
                               ELSE Append(kept, r.result[1])
                 /\ fetched' = IF r.result = None THEN fetched
                               ELSE fetched \cup { item.image_url }
                 /\ last' = Some([ key |-> item.item_id, url |-> item.image_url,
                                   skipped |-> r.result = None,
                                   answer |-> answer ])
    \* line 410: the wait, whether or not the item was fetched
    /\ rested' = TRUE
    /\ idx' = idx + 1
    /\ pc' = IF idx + 1 = Len(failed_items) THEN "retry_save" ELSE "retry"
    /\ UNCHANGED << prog, parseVars, priceVars, run, file, exc, replay, images, failed_items, retry_errors,
                    cloudVars, ebayVars, start, attempted, writes, published >>

\* Line 415: the save that ends _retry_failed_items
TessRetrySave ==
    /\ prog = "tess" /\ pc = "retry_save"
    /\ \E outcome \in Outcome(WriteOutcomes) :
         LET w == write_json(file, results, outcome)
         IN  /\ file' = [state |-> w.state, content |-> w.content]
             /\ exc' = w.raised
    /\ pc' = "done"
    /\ writes' = writes + 1
    /\ last' = None
    /\ UNCHANGED << prog, parseVars, priceVars, rested, run, replay, images, idx, tessVars, cloudVars, ebayVars,
                    start, attempted, fetched, published >>

----------------------------------------------------------------------------
(* ebay: update_listings() *)

\* an update that takes no image for processed
loaded_ids_none(data) == {}

\* Line 267: {item.get('image_id', '') for item in data}
loaded_ids(data) == { Get(data[i], "image_id", "") : i \in 1..Len(data) }

\* new_listings put in front of the loaded records
extend_front(all, new) == new \o all

\* Lines 305-306: all_listings.extend(new_listings) when there are new ones
extend(all, new) == IF new # << >> THEN all \o new ELSE all

\* Lines 264-266 on a file that is no JSON: json.load raises out of the run
EbayLoadFails ==
    /\ CanStart("ebay")
    /\ file.state = "malformed"
    /\ Begin
    /\ pc' = "done"
    /\ exc' = "JSONDecodeError"
    /\ images' = << >>
    /\ all_listings' = << >>
    /\ existing_ids' = {}
    /\ existing_combos' = {}
    /\ new_listings' = << >>
    /\ writes' = 0
    /\ UNCHANGED << file, cloudVars, tessVars >>

\* Lines 254-281: load the artifact, fetch the image URLs
EbayStart ==
    /\ CanStart("ebay")
    /\ file.state # "malformed"
    /\ Begin
    /\ all_listings' = file.content
    /\ existing_ids' = loaded_ids(file.content)
    /\ existing_combos' = { combo(file.content[i]) : i \in 1..Len(file.content) }
    /\ new_listings' = << >>
    /\ \E l \in Listing(EbayListings) :
         /\ images' = l
         /\ pc' = IF l = << >> THEN "save" ELSE "loop"
    /\ exc' = ""
    /\ writes' = 0
    /\ UNCHANGED << file, cloudVars, tessVars >>

\* Lines 283-303: one iteration of the for loop; found[img_url] are the
\* values extract_ebay_listings(img_url) may return at line 285
EbayLoop(found) ==
    /\ prog = "ebay" /\ pc = "loop"
    /\ LET img_id == images[idx + 1][1]
           img_url == images[idx + 1][2]
       IN  IF img_id \notin existing_ids
           THEN \E listings \in found[img_url] :
                  \E r \in { add_listings(listings, img_id, run,
                                           new_listings, existing_combos) } :
                      /\ new_listings' = r.new
                      /\ existing_combos' = r.combos
                      /\ existing_ids' = existing_ids \cup { img_id }
                      /\ attempted' = Append(attempted, images[idx + 1])
                      /\ fetched' = fetched \cup { img_url }
                      /\ last' = Some([ key |-> img_id, url |-> img_url,
                                        found |-> listings ])
           ELSE UNCHANGED << new_listings, existing_combos, existing_ids,
                             attempted, fetched, last >>
    /\ idx' = idx + 1
    /\ pc' = IF idx + 1 = Len(images) THEN "save" ELSE "loop"
    /\ UNCHANGED << prog, parseVars, priceVars, rested, run, file, exc, replay, images,
                    all_listings, cloudVars, tessVars, start, writes, published >>

\* the listings extract_ebay_listings returns for each image listed
Extracted ==
    [ img_url \in { images[k][2] : k \in 1..Len(images) } |->
        { extract_ebay_listings(answer) : answer \in Answer(img_url, EbayAnswers) } ]

\* Lines 283-303: the iteration, with the listings the extractor returns
EbayItem == EbayLoop(Extracted)

\* Lines 305-319: extend and write
EbaySave ==
    /\ prog = "ebay" /\ pc = "save"
    /\ all_listings' = extend(all_listings, new_listings)
    /\ \E outcome \in Outcome(WriteOutcomes) :
         LET w == write_json(file, all_listings', outcome)
         IN  /\ file' = [state |-> w.state, content |-> w.content]
             /\ exc' = w.raised
    /\ pc' = "done"
    /\ writes' = writes + 1
    /\ UNCHANGED << prog, parseVars, priceVars, rested, run, replay, images, idx, existing_ids, existing_combos,
                    new_listings, cloudVars, tessVars, start, attempted, fetched,
                    last, published >>

----------------------------------------------------------------------------

Next ==
    \/ CloudListFails \/ CloudStart \/ CloudItem \/ CloudSave \/ CloudPublish
    \/ TessStart \/ TessItem \/ TessFinal \/ TessRetryItem \/ TessRetrySave
    \/ EbayLoadFails \/ EbayStart \/ EbayItem \/ EbaySave

Spec == Init /\ [][Next]_vars

----------------------------------------------------------------------------
(* The same source listing and the same OCR output in every run, and no    *)
(* failing disk or server: the runs of the idempotence property.           *)

CloudUrls == { SecureUrl(PublicIds[i]) : i \in 1..Len(PublicIds) }
TessUrls == { TessSources[i].image_url : i \in 1..Len(TessSources) }
EbayUrls == { l[i][2] : i \in 1..MaxImages, l \in { x \in EbayListings : Len(x) = MaxImages } }

\* one answer per URL; the URLs that are not listed get the same answer
AnswerMaps(urls, listed, answers) ==
    { f \in [urls -> answers] :
        \A u \in urls \ listed : f[u] = CHOOSE a \in answers : TRUE }

ListedUrls(p, l) ==
    CASE p = "cloud" -> { l[i][1] : i \in 1..Len(l) }
      [] p = "tess" -> { l[i].image_url : i \in 1..Len(l) }
      [] p = "ebay" -> { l[i][2] : i \in 1..Len(l) }

ReplaysOf(p, listings, urls, answers) ==
    UNION { { [on |-> TRUE, listing |-> l, answer |-> f] :
                f \in AnswerMaps(urls, ListedUrls(p, l), answers) } :
            l \in listings }

Replays(p) ==
    CASE p = "cloud" -> ReplaysOf(p, CloudListings, CloudUrls, OcrResponses)
      [] p = "tess" -> ReplaysOf(p, TessListings, TessUrls, TessAnswers)
      [] p = "ebay" -> ReplaysOf(p, EbayListings, EbayUrls, EbayAnswers)

InitReplay == InitCommon /\ ParseOff /\ PriceOff /\ replay \in Replays(prog)

NextReplay ==
    \/ CloudStart \/ CloudItem \/ CloudSave \/ CloudPublish
    \/ TessStart \/ TessItem \/ TessFinal \/ TessRetryItem \/ TessRetrySave
    \/ EbayStart \/ EbayItem \/ EbaySave

SpecReplay == InitReplay /\ [][NextReplay]_vars

----------------------------------------------------------------------------
(* Long runs of TesseractEbayExtractor: a listing of MaxBatch images, long
   enough for the progress save of _process_images.  load_from_json keeps
   every entry of eBaySales.json, so the same URL can be listed twice: with
   dup the SaveEvery-th entry repeats the URL of the first.  Every image
   reads in full except the first, which may fail to download; the disk may
   fail at every write. *)

BatchUrl(i, dup) == << "u", IF dup /\ i = SaveEvery THEN 1 ELSE i >>
BatchImages(dup) ==
    [i \in 1..MaxBatch |-> [item_id |-> << "p", i >>, image_url |-> BatchUrl(i, dup)]]
BatchUrls == { BatchUrl(i, FALSE) : i \in 1..MaxBatch }
BatchFirst ==
    { [t |-> "raise", msg |-> M_timeout],
      [t |-> "image", decoded |-> TRUE, text |-> T_full, text_original |-> T_noprice] }
Batches ==
    { [ on |-> TRUE, faults |-> TRUE, listing |-> BatchImages(dup),
        answer |-> [u \in BatchUrls |->
                       IF u = BatchUrl(1, FALSE) THEN a
                       ELSE [t |-> "image", decoded |-> TRUE, text |-> T_full,
                             text_original |-> T_noprice]] ] :
        dup \in BOOLEAN, a \in BatchFirst }

InitBatch == InitCommon /\ ParseOff /\ PriceOff /\ prog = "tess" /\ replay \in Batches

NextBatch == TessStart \/ TessItem \/ TessFinal \/ TessRetryItem \/ TessRetrySave

SpecBatch == InitBatch /\ [][NextBatch]_vars

----------------------------------------------------------------------------
(* extract_ebay_listings on its own: the OCR text of one image is cleaned
   and split as lines 123-125 do, then the while loop of lines 133-241 runs
   one part of its body per step.  el_spans records, for every date anchor
   the loop takes up, the first and the last line it consumed for it. *)

\* the lines an OCR text is made of
ParseLines == { L_ended, L_date, L_title, L_price, L_seller }
ParseTexts == SeqsUpTo(ParseLines, MaxLines)

progVars == << prog, pc, run, file, exc, replay, images, idx,
               cloudVars, tessVars, ebayVars, histVars, rested, priceVars >>

InitParse ==
    /\ InitCommon /\ prog = "ebay" /\ file = Missing /\ replay = Free
    /\ PriceOff
    /\ el_lines \in { split_lines(clean_ocr_text(text)) : text \in ParseTexts }
    /\ el_i = 1
    /\ el_pc = "scan"
    /\ el_listing = None
    /\ el_listings = << >>
    /\ el_spans = << >>

\* the lines consumed for the anchor taken up last end before the cursor
Consumed(spans, i) == [spans EXCEPT ![Len(spans)].last = i - 1]

\* Lines 133-141: a line that is no date anchor is passed over
ParseSkip ==
    /\ el_pc = "scan" /\ el_i <= Len(el_lines)
    /\ ~date_line(el_lines[el_i])
    /\ el_i' = el_i + 1
    /\ UNCHANGED << progVars, el_lines, el_pc, el_listing, el_listings, el_spans >>

\* Lines 133-151: a date anchor starts a listing
ParseDate ==
    /\ el_pc = "scan" /\ el_i <= Len(el_lines)
    /\ date_line(el_lines[el_i])
    /\ el_listing' = Some([ status |-> el_lines[el_i][1], date |-> el_lines[el_i],
                            listing_title |-> << >>, sold_price |-> None,
                            seller |-> None ])
    /\ el_spans' = Append(el_spans, [first |-> el_i, last |-> el_i])
    /\ el_i' = el_i + 1
    /\ el_pc' = "title"
    /\ UNCHANGED << progVars, el_lines, el_listings >>

\* Lines 153-185: the title loop
ParseTitle ==
    /\ el_pc = "title"
    /\ LET t == title_loop(el_lines, el_i, << >>)
       IN  /\ el_listing' = Some([el_listing[1] EXCEPT
                                     !.listing_title = Flatten(t.parts)])
           /\ el_i' = t.i
           /\ el_spans' = Consumed(el_spans, t.i)
    /\ el_pc' = "price"
    /\ UNCHANGED << progVars, el_lines, el_listings >>

\* Lines 187-198: the price loop
ParsePrice ==
    /\ el_pc = "price"
    /\ LET p == price_loop(el_lines, el_i, PriceWindow)
       IN  /\ el_listing' = Some([el_listing[1] EXCEPT !.sold_price = p.price])
           /\ el_i' = p.i
           /\ el_spans' = Consumed(el_spans, p.i)
    /\ el_pc' = "seller"
    /\ UNCHANGED << progVars, el_lines, el_listings >>

\* Lines 200-228: the seller loop
ParseSeller ==
    /\ el_pc = "seller"
    /\ LET sl == seller_loop(el_lines, el_i, SellerWindow)
       IN  /\ el_listing' = Some([el_listing[1] EXCEPT !.seller = sl.seller])
           /\ el_i' = sl.i
           /\ el_spans' = Consumed(el_spans, sl.i)
    /\ el_pc' = "emit"
    /\ UNCHANGED << progVars, el_lines, el_listings >>

\* Lines 230-241: the listing is kept when it has a title and a price
ParseEmit ==
    /\ el_pc = "emit"
    /\ el_listings' =
           IF el_listing[1].listing_title # << >> /\ el_listing[1].sold_price # None
           THEN Append(el_listings, el_listing[1]) ELSE el_listings
    /\ el_listing' = None
    /\ el_pc' = "scan"
    /\ UNCHANGED << progVars, el_lines, el_i, el_spans >>

\* Lines 133, 243-244: the loop is over, listings is returned
ParseReturn ==
    /\ el_pc = "scan" /\ el_i > Len(el_lines)
    /\ el_pc' = "done"
    /\ UNCHANGED << progVars, el_lines, el_i, el_listing, el_listings, el_spans >>

NextParse ==
    \/ ParseSkip \/ ParseDate \/ ParseTitle \/ ParsePrice \/ ParseSeller
    \/ ParseEmit \/ ParseReturn

SpecParse == InitParse /\ [][NextParse]_vars

----------------------------------------------------------------------------
(* The price extractors on their own: parse_ocr_to_json and
   TesseractEbayExtractor.extract_price applied to one OCR text *)

\* the lines an OCR text with prices is made of
PriceLines == { L_title, << "$5" >>, << "$24.99" >>, << "$30.00" >> }
PriceTexts == SeqsUpTo(PriceLines, MaxLines)

InitPrice ==
    /\ InitCommon /\ ParseOff /\ file = Missing /\ replay = Free
    /\ prog = "cloud"
    /\ pr_text \in PriceTexts
    /\ pr_pc = "in"
    /\ pr_cloud = None
    /\ pr_tess = None

ExtractPrice ==
    /\ pr_pc = "in"
    /\ pr_cloud' = parse_ocr_to_json(pr_text, SecureUrl(PublicIds[1]),
                                     PublicIds[1], 1).sold_price
    /\ pr_tess' = extract_price(pr_text)
    /\ pr_pc' = "out"
    /\ UNCHANGED << prog, pc, run, file, exc, replay, images, idx, cloudVars,
                    tessVars, ebayVars, histVars, rested, parseVars, pr_text >>

NextPrice == ExtractPrice

SpecPrice == InitPrice /\ [][NextPrice]_vars

----------------------------------------------------------------------------
(* Properties of the pipeline *)

\* the identifier of a record: public_id in the cloud driver, item_id in
\* TesseractEbayExtractor
KeyOf(rec) ==
    IF prog = "cloud" THEN Get(rec, "public_id", "") ELSE Get(rec, "item_id", "")

\* the record needs another attempt: reprocess or fail / success = false
NonComplete(rec) ==
    IF prog = "cloud" THEN Get(rec, "success", "fail") \in { "reprocess", "fail" }
    ELSE ~Get(rec, "success", FALSE)

IsComplete(rec) ==
    IF prog = "cloud" THEN Get(rec, "success", "fail") = "complete"
    ELSE Get(rec, "success", FALSE)

AllThree(rec) ==
    /\ Get(rec, "sold_date", None) # None
    /\ Get(rec, "title", None) # None
    /\ Get(rec, "sold_price", None) # None

\* the last path components of the listed / queued / attempted resources
Pids(items) == { Last(items[i][2]) : i \in 1..Len(items) }

\* the main loop of the run is over
LoopOver ==
    CASE prog = "cloud" -> run > 0 /\ pc \in { "save", "publish", "done" }
      [] prog = "tess" -> run > 0 /\ pc \in { "final", "retry", "retry_save", "done" }
      [] prog = "ebay" -> run > 0 /\ pc \in { "save", "done" }

\* C1: after any sequence of runs the persisted collection holds at most one
\* record per item id (public_id in the cloud driver, item_id in
\* TesseractEbayExtractor).
C1_KeyUniqueness ==
    (prog \in { "cloud", "tess" } /\ file.state = "ok") =>
        \A i, j \in 1..Len(file.content) :
           KeyOf(file.content[i]) = KeyOf(file.content[j]) => i = j

\* C2: a record the previous run persisted as reprocess or fail (success =
\* false) whose image is still listed is in the work list of the next run and
\* is attempted again in that run.
C2_RetryInclusion ==
    (LoopOver /\ start.state = "ok") =>
        \A rec \in Range(start.content) :
           NonComplete(rec) =>
              CASE prog = "cloud" ->
                     rec.public_id \in Pids(images) =>
                        /\ rec.public_id \in Pids(images_to_process)
                        /\ rec.public_id \in Pids(attempted)
                [] prog = "tess" ->
                     rec.image_url \in ListedUrls("tess", images) =>
                        rec.image_url \in fetched
                [] OTHER -> TRUE

\* C3: a record that is complete when the store is loaded is never replaced by
\* the run: it is not in the work list, it stays as it is in the dict of the
\* run and it is identical in the artifact the run writes, also when its item
\* id is listed.
C3_CompletePreserved ==
    (prog = "cloud" /\ run > 0 /\ start.state = "ok") =>
        \A rec \in Range(start.content) :
           Get(rec, "success", "fail") = "complete" =>
              /\ rec.public_id \notin Pids(images_to_process)
              /\ pc \in { "loop", "save", "publish" } =>
                    DictGet(existing_dict, rec.public_id) = rec
              /\ file.state = "ok" => rec \in Range(file.content)

\* a run that found a complete record for a listed image and wrote the artifact
C3_Witness ==
    /\ prog = "cloud" /\ pc = "publish" /\ start.state = "ok"
    /\ file.state = "ok" /\ file # start
    /\ \E rec \in Range(start.content) :
          /\ Get(rec, "success", "fail") = "complete"
          /\ rec.public_id \in Pids(images)

\* C4: after OCR and extraction succeeded for a work item its record is
\* complete when sold_date, title and sold_price were all extracted and
\* reprocess when one is missing; nothing is raised and nothing recorded as
\* fail.
C4_StatusAfterOcr ==
    (prog = "cloud" /\ last # None /\ last[1].ocr.ok) =>
        LET toks == clean_text(last[1].ocr.val)
            all3 == /\ sold_date_match(toks) # None
                    /\ title_match(toks) # None
                    /\ price_match(toks) # None
            rec == DictGet(existing_dict, last[1].key)
        IN  /\ exc = ""
            /\ Get(rec, "success", "") = IF all3 THEN "complete" ELSE "reprocess"

\* C5: every persisted record is complete (success = 'complete' / success =
\* true) exactly when its sold_date, title and sold_price are all non-null.
C5_StatusDerivation ==
    (prog \in { "cloud", "tess" } /\ file.state = "ok") =>
        \A rec \in Range(file.content) : IsComplete(rec) <=> AllThree(rec)

\* the entry the cloud driver holds for the item whose OCR call raised:
\* fail, the title made of the first ErrTitleLen characters of the message,
\* no date, price or seller
CloudFailShape ==
    LET rec == DictGet(existing_dict, last[1].key)
    IN  /\ rec.success = "fail"
        /\ rec.title = Some(P_error \o Take(last[1].ocr.msg, ErrTitleLen))
        /\ rec.sold_date = None
        /\ rec.sold_price = None
        /\ rec.seller = None

CloudOcrRaised == prog = "cloud" /\ last # None /\ ~last[1].ocr.ok
TessOcrRaised ==
    prog = "tess" /\ last # None /\ ~last[1].skipped /\ last[1].answer.t = "raise"

EbayWork ==
    LET ids == { Get(start.content[i], "image_id", "") : i \in 1..Len(start.content) }
    IN  Filter(images, { im \in Range(images) : im[1] \notin ids })

\* C7: a failure on one item never aborts the batch: once the loop is over
\* every item of the work list has been attempted, whatever the outcomes of
\* the items before it.
C7_BatchNotAborted ==
    LoopOver =>
        CASE prog = "cloud" -> attempted = images_to_process
          [] prog = "tess" -> attempted = images
          [] prog = "ebay" -> exc = "JSONDecodeError" \/ attempted = EbayWork

\* the first of two work items failed and the second was attempted
C7_Witness ==
    /\ prog = "cloud" /\ pc = "save"
    /\ Len(attempted) = MaxImages
    /\ DictGet(existing_dict, Last(attempted[1][2])).success = "fail"
    /\ Last(attempted[1][2]) # Last(attempted[2][2])

\* C8: no run removes a record: every record of the artifact the run loaded
\* has a record with the same identifier in the artifact the run wrote.
C8_NoRecordRemoved ==
    (run > 0 /\ pc = "done" /\ writes > 0 /\ file.state = "ok" /\ start.state = "ok") =>
        \A rec \in Range(start.content) :
           \E kept \in Range(file.content) :
              IF prog = "ebay" THEN kept = rec ELSE KeyOf(kept) = KeyOf(rec)

\* every listed image is read in full: OCR gives a text that holds the sold
\* date, the title and the sold price, so no record is due for a retry
ReadInFull ==
    \A u \in ListedUrls(prog, replay.listing) :
       CASE prog = "cloud" ->
              LET raw_text == ocr_extract_text(replay.answer[u])
              IN  /\ raw_text.ok
                  /\ AllThree(parse_ocr_to_json(raw_text.val, u, << "ws", "a" >>, 0))
         [] prog = "tess" ->
              LET r == extract_from_image_url(u, "a", {}, replay.answer[u], 0).result
              IN  r # None /\ r[1].success /\ AllThree(r[1])
         [] OTHER -> TRUE

\* C9: the second of two runs with the same listing and the same OCR output
\* leaves the artifact as the first run left it, with no duplicate entry and
\* no changed field (taken where every image is read in full).
C9_Idempotent ==
    (replay.on /\ ReadInFull /\ run = MaxRuns /\ pc = "done") => file = start

\* no image of the run needs processing
WorkListEmpty ==
    IF prog = "cloud" THEN images_to_process = << >> ELSE images = << >>

\* C10 as stated: with an empty work list the run exits successfully without
\* writing the artifact and without invoking publish.
C10_EmptyNoWrite ==
    (run > 0 /\ pc = "done" /\ exc = "" /\ WorkListEmpty) =>
        writes = 0 /\ published = {}

\* C10 amended: with an empty work list the cloud driver exits successfully
\* without writing the artifact and without invoking publish;
\* TesseractEbayExtractor and update_listings, which publish nothing, write
\* the artifact again when the source lists no image.
C10_EmptyNoWriteCloud ==
    /\ (prog = "cloud" /\ run > 0 /\ exc = "" /\ WorkListEmpty) =>
          pc = "done" /\ writes = 0 /\ published = {} /\ file = start
    /\ (prog \in { "tess", "ebay" } /\ run > 0 /\ pc = "done" /\ WorkListEmpty
          /\ exc # "JSONDecodeError") =>
          writes = 1 /\ published = {}

\* a run of the cloud driver over a listing whose images are all complete
C10_Witness ==
    /\ prog = "cloud" /\ run > 0 /\ pc = "done" /\ exc = ""
    /\ images # << >>
    /\ images_to_process = << >>

----------------------------------------------------------------------------
(* C11 *)

\* C11: persisting is atomic: once a run has written, the artifact holds
\* either the complete content it had when the run started or a complete
\* new content, never an empty or cut-off file
C11_AtomicPersist ==
    writes > 0 => (file.state = "ok" \/ file = start)

----------------------------------------------------------------------------
(* C12 *)

\* C12: a run that finds a malformed artifact treats the store as empty and
\* starts afresh: no exception escapes the load and every source image is
\* taken as new
C12_MalformedIsEmpty ==
    (run > 0 /\ start.state = "malformed") =>
        /\ exc # "JSONDecodeError"
        /\ prog = "cloud" =>
             images_to_process =
                 [i \in 1..Len(images) |-> << images[i][1], images[i][2], "new" >>]
        /\ (prog = "tess" /\ pc = "loop" /\ idx = 0) =>
             results = << >> /\ seen_hashes = {}
        /\ (prog = "ebay" /\ pc = "loop" /\ idx = 0) =>
             all_listings = << >> /\ existing_ids = {} /\ existing_combos = {}

----------------------------------------------------------------------------
(* C13 *)

\* the collection a write of this step puts on disk
StoreNow ==
    CASE prog = "cloud" -> DictValues(existing_dict)
      [] prog = "tess" -> results
      [] prog = "ebay" -> all_listings

\* C13: a failing write is fatal: a step whose write of the store fails, at
\* a progress save or at a final save, ends the run with an error, so that
\* no further image is processed
C13_PersistFailureFatal ==
    [][ (writes' = writes + 1 /\ file' # Stored(StoreNow'))
          => (pc' = "done" /\ exc' # "") ]_vars

----------------------------------------------------------------------------
(* C14 *)

\* what leaves main when the image listing fails (line 50) and when the write
\* of the store fails (lines 320-321); load_existing_json raises nothing
ListOrWriteFailure == { "Exception", "OSError" }

\* C14: only a failing listing, load or write ends main with an exception: a
\* run of main whose listing, load and write succeed ends normally, whatever
\* the OCR answers are and whether the FTP upload and git succeed or fail
C14_OnlyStoreFailuresFatal ==
    (prog = "cloud" /\ run > 0 /\ pc = "done" /\ exc \notin ListOrWriteFailure)
        => exc = ""

----------------------------------------------------------------------------
(* C15 *)

\* C15: main publishes (FTP upload, git) only after the whole store was
\* written in the same run; a run whose listing, load or write fails
\* publishes nothing; and whatever the publishing does, fail included, the
\* artifact stays as it was written
C15_PublishAfterWrite ==
    prog = "cloud" =>
        /\ published # {} => (writes = 1 /\ file = Stored(StoreNow))
        /\ exc \in ListOrWriteFailure => published = {}

\* a run that wrote the store, whose upload failed and whose git step ended
\* in an error
C15_Witness ==
    /\ prog = "cloud" /\ pc = "done" /\ writes = 1
    /\ published = { "ftp", "git" }
    /\ file = Stored(StoreNow)

----------------------------------------------------------------------------
(* C16 *)

\* the status the store read at the start of the run holds for pid: that of
\* its last record with this public_id, "new" when it has none
StoredStatus(pid) ==
    LET c == IF start.state = "ok" THEN start.content ELSE << >>
        S == { k \in 1..Len(c) : Get(c[k], "public_id", "") = pid }
    IN  IF S = {} THEN "new"
        ELSE Get(c[CHOOSE k \in S : \A m \in S : m <= k], "success", "fail")

\* the listed images the work list has to hold
Wanted ==
    { i \in 1..Len(images) :
        StoredStatus(Last(images[i][2])) \in { "new", "reprocess", "fail" } }

\* C16: filter_images_to_process returns exactly the listed images whose id
\* is absent from the store, tagged new, or stored as reprocess or fail,
\* tagged with that status, in the order of the listing; the complete ones
\* and no other image are left out
C16_FilterExact ==
    (prog = "cloud" /\ run > 0) =>
        /\ Len(images_to_process) = Cardinality(Wanted)
        /\ \A i \in Wanted :
             images_to_process[Cardinality({ j \in Wanted : j <= i })] =
                 << images[i][1], images[i][2], StoredStatus(Last(images[i][2])) >>

\* a second run over two images: one stored complete and left out, one
\* stored fail and queued again
C16_Witness ==
    /\ prog = "cloud" /\ run = 2 /\ Len(images) = 2
    /\ Len(images_to_process) = 1 /\ images_to_process[1][3] = "fail"
    /\ \E i \in 1..2 : StoredStatus(Last(images[i][2])) = "complete"

----------------------------------------------------------------------------
(* C17 *)

\* the item id and the URL of the i-th image the loop of this run took up
AttKey(i) == IF prog = "cloud" THEN Last(attempted[i][2]) ELSE attempted[i].item_id
AttUrl(i) == IF prog = "cloud" THEN attempted[i][1] ELSE attempted[i].image_url

\* the attempts of this run that produced a record for item id k
AttemptsOf(k) ==
    { i \in 1..Len(attempted) : AttKey(i) = k /\ AttUrl(i) \in fetched }

\* the places of the store that hold a record of this run for item id k
MadeNow(k) ==
    { j \in 1..Len(StoreNow) :
        KeyOf(StoreNow[j]) = k /\ Get(StoreNow[j], "processed_at", 0) = run }

\* C17: applying a result replaces the earlier record of the same id: when the
\* main loop of one run has processed an item id more than once, the store
\* holds one record of this run for it, that of the last attempt
C17_LastAttemptWins ==
    (run > 0 /\ ((prog = "cloud" /\ pc = "save") \/ (prog = "tess" /\ pc = "final")))
        => \A i \in 1..Len(attempted) :
             AttUrl(i) \in fetched =>
                 /\ Cardinality(MadeNow(AttKey(i))) = 1
                 /\ \A j \in MadeNow(AttKey(i)) :
                      StoreNow[j].image_url =
                          AttUrl(CHOOSE m \in AttemptsOf(AttKey(i)) :
                                     \A n \in AttemptsOf(AttKey(i)) : n <= m)

----------------------------------------------------------------------------
(* C18 *)

\* the results in memory that the artifact does not hold
Unsaved ==
    LET saved == IF file.state = "ok" THEN Range(file.content) ELSE {}
    IN  Cardinality({ j \in 1..Len(results) : results[j] \notin saved })

\* C18: _process_images saves after every SaveEvery-th image of its input
\* list, so that never more than SaveEvery appended results are unsaved
C18_SaveEveryTen ==
    (prog = "tess" /\ run > 0 /\ pc \in { "loop", "final" }) =>
        /\ writes >= idx \div SaveEvery
        /\ Unsaved <= SaveEvery

----------------------------------------------------------------------------
(* C19, C20 *)

\* the date-anchor lines of the line sequence
AnchorLines == { k \in 1..Len(el_lines) : date_line(el_lines[k]) }

\* C19: extract_ebay_listings emits exactly one listing per line that matches
\* the Sold/Ended date anchor: it returns as many records as the line
\* sequence has date-anchor lines
C19_OnePerAnchor ==
    el_pc = "done" => Len(el_listings) = Cardinality(AnchorLines)

----------------------------------------------------------------------------
(* C21 *)

\* this step downloads and reads an image of the cloud or tess driver
OcrCalled ==
    /\ prog \in { "cloud", "tess" }
    /\ fetched' # fetched \/ (last' # last /\ last' # None /\ ~Get(last'[1], "skipped", FALSE))

\* C21: between two consecutive OCR invocations of one run the driver blocks
\* for the configured delay: a step that calls OCR is the first of its run to
\* do so, or the driver has slept since the call before it (the calls are
\* made one after the other by the one loop, never two at a time)
C21_DelayBetweenCalls ==
    [][ (OcrCalled /\ run' = run /\ attempted # << >>) => rested ]_vars

----------------------------------------------------------------------------
(* C22 *)

\* the places of the price-looking tokens of the text ($ and an integer or a
\* decimal number), and those of the form $digits.dd
PriceLooking == { i \in 1..Len(Flatten(pr_text)) : Flatten(pr_text)[i] \in DollarDigit }
DecimalLooking == { i \in PriceLooking : Flatten(pr_text)[i] \in DecPriceToks }

\* the number a price token shows
Amount(t) == IF t \in DecPriceToks THEN PriceDec(t) ELSE PriceInt(t)
FirstOf(S) == Flatten(pr_text)[CHOOSE i \in S : \A j \in S : i <= j]

----------------------------------------------------------------------------
(* C23 *)

\* what ocr_extract_text raises on an answer without ParsedResults entry or
\* without ParsedText (line 90)
StructureErrors == { "IndexError", "KeyError" }

\* C23: when the OCR service answers without transport or engine error but
\* the result structure is absent or malformed, the record stored for the
\* image has every extracted field null and status reprocess, not fail
C23_MalformedIsReprocess ==
    (CloudOcrRaised /\ last[1].ocr.type \in StructureErrors) =>
        LET rec == DictGet(existing_dict, last[1].key)
        IN  /\ Get(rec, "success", "") = "reprocess"
            /\ rec.sold_date = None
            /\ rec.title = None
            /\ rec.sold_price = None
            /\ rec.seller = None

----------------------------------------------------------------------------
(* C24 *)

\* the loaded entries that have a public_id which no work item of the run has
Untouched ==
    { rec \in Range(start.content) :
        /\ Get(rec, "public_id", "") # ""
        /\ Get(rec, "public_id", "") \notin Pids(images_to_process) }

\* C24: main of the cloud driver writes back unchanged every loaded entry
\* whose public_id is the id of no work item, the entries whose image has
\* left the source listing included
C24_UntouchedWrittenBack ==
    (prog = "cloud" /\ run > 0 /\ start.state = "ok") =>
        /\ pc \in { "loop", "save", "publish" } =>
             \A rec \in Untouched :
                /\ rec.public_id \in DictKeys(existing_dict)
                /\ DictGet(existing_dict, rec.public_id) = rec
        /\ (writes = 1 /\ exc # "OSError") =>
             \A rec \in Untouched : rec \in Range(file.content)

\* a run that wrote the artifact while a loaded entry's image was not listed
C24_Witness ==
    /\ prog = "cloud" /\ pc = "publish" /\ start.state = "ok" /\ writes = 1
    /\ file # start
    /\ \E rec \in Untouched : rec.public_id \notin Pids(images)

----------------------------------------------------------------------------
(* C25 *)

\* some record loaded from the artifact carries the image id
LoadedFor(img_id) ==
    \E rec \in Range(start.content) : Get(rec, "image_id", "") = img_id

\* C25: update_listings skips an image exactly when a record loaded from the
\* artifact carries its image_id, and the records it adds carry the ids of
\* the images it processed: an image that left no listing is therefore taken
\* up again by every later run
C25_SkipIffLoaded ==
    (prog = "ebay" /\ run > 0 /\ exc # "JSONDecodeError") =>
        /\ \A k \in 1..idx : images[k] \in Range(attempted) <=> ~LoadedFor(images[k][1])
        /\ \A rec \in Range(new_listings) :
             \E k \in 1..Len(attempted) : attempted[k][1] = rec.image_id

\* the loop of a second run is over: it skipped one image and took up another,
\* one that no record of the artifact names
C25_Witness ==
    /\ prog = "ebay" /\ run = 2 /\ pc = "save"
    /\ Len(images) = 2 /\ Len(attempted) = 1
    /\ \E k \in 1..2 : LoadedFor(images[k][1])

----------------------------------------------------------------------------
(* C26 *)

\* this step is one call of extract_from_image_url, from either loop
TessCall == prog = "tess" /\ pc \in { "loop", "retry" } /\ idx' = idx + 1

\* this step constructs the extractor, which loads the artifact
TessLoad == prog = "tess" /\ pc \in { "idle", "done" } /\ run' = run + 1

\* C26: an image URL whose hash is in seen_hashes is never downloaded or
\* read: the call returns no record, so that no record is added and
\* seen_hashes stays as it is; and a hash enters seen_hashes only when the
\* artifact is loaded or after a successful extraction of its URL
C26_SeenNeverFetched ==
    [][ /\ TessCall =>
             LET h == compute_image_hash(last'[1].url)
             IN  /\ h \in seen_hashes =>
                      /\ last'[1].skipped
                      /\ fetched' = fetched
                      /\ seen_hashes' = seen_hashes
                      /\ Range(results') \subseteq Range(results)
                 /\ seen_hashes' \subseteq seen_hashes \cup { h }
                 /\ h \in seen_hashes' \ seen_hashes =>
                      /\ Last(results').success
                      /\ Last(results').image_url = last'[1].url
        /\ TessLoad =>
             seen_hashes' \subseteq
                 { Get(rec, "image_hash", "") : rec \in Range(file.content) }
        /\ (prog = "tess" /\ ~TessCall /\ ~TessLoad) => seen_hashes' = seen_hashes
      ]_vars

\* a second run has skipped an image whose hash it loaded from the artifact
C26_Witness ==
    /\ prog = "tess" /\ run = 2 /\ pc \in { "loop", "final" }
    /\ last # None /\ last[1].skipped
    /\ compute_image_hash(last[1].url) \in seen_hashes
    /\ last[1].url \notin fetched

(***************************************************************************)
(* The loop of update_listings over the listings of an image               *)
(* (extract_ebay.py lines 283-303), taken on its own.  What                *)
(* extract_ebay_listings returns is drawn here from the records its        *)
(* parsing loop builds (lines 231-242), so that the loop is exercised      *)
(* with listings to add; under Spec the function returns no listing for    *)
(* any text (see C19) and new_listings stays empty.                        *)
(***************************************************************************)

\* listings one image yields
MaxFound == 2

\* Lines 231-242: a record the parsing loop appends to listings
FoundListing(price) ==
    [ status |-> "Sold", date |-> L_date, listing_title |-> L_title,
      sold_price |-> Some(price), seller |-> None ]

\* return values of extract_ebay_listings(img_url) at line 285
FoundListings ==
    [ img_url \in { images[k][2] : k \in 1..Len(images) } |->
        SeqsUpTo({ FoundListing("$24.99"), FoundListing("$5"), FoundListing("$30.00") },
                 MaxFound) ]

\* the remote lists the same images in every run and the disk does not fail
FoundReplays == { [on |-> TRUE, listing |-> l] : l \in EbayListings }

InitFound ==
    InitCommon /\ ParseOff /\ PriceOff /\ prog = "ebay" /\ replay \in FoundReplays

FoundItem == EbayLoop(FoundListings)

NextFound == EbayStart \/ FoundItem \/ EbaySave

SpecFound == InitFound /\ [][NextFound]_vars

\* combinations of the records the run loaded
LoadedCombos == { combo(start.content[i]) : i \in 1..Len(start.content) }

\* C27: a record added in the run has a listing_title|sold_price combination
\* that no loaded record and no other record added in the run has.
C27_AddedCombosFresh ==
    prog = "ebay" =>
        \A i \in 1..Len(new_listings) :
            /\ combo(new_listings[i]) \notin LoadedCombos
            /\ \A j \in 1..Len(new_listings) :
                   j # i => combo(new_listings[j]) # combo(new_listings[i])

\* the last image yielded a listing a loaded record already has and the run
\* has added a record
C27_Witness ==
    /\ prog = "ebay" /\ pc = "save"
    /\ last # None
    /\ \E k \in 1..Len(last[1].found) : combo(last[1].found[k]) \in LoadedCombos
    /\ new_listings # << >>

\* C28: a run of update_listings that writes the artifact writes the loaded
\* records first, unchanged and in their order, and the records created in
\* the run after them.
C28_AppendOnly ==
    (prog = "ebay" /\ pc = "done" /\ exc = "") =>
        /\ file.state = "ok"
        /\ Len(file.content) = Len(start.content) + Len(new_listings)
        /\ \A i \in 1..Len(start.content) : file.content[i] = start.content[i]
        /\ \A i \in 1..Len(new_listings) :
               file.content[Len(start.content) + i] = new_listings[i]

\* a run that loaded records and created one has written the artifact
C28_Witness ==
    /\ prog = "ebay" /\ pc = "done" /\ exc = ""
    /\ start.content # << >>
    /\ new_listings # << >>

\* C29: _retry_failed_items makes one pass over the records that are failed
\* when it starts: the pass starts once in a run, after the main loop, on
\* the failed records of the store; each step takes the next record of that
\* list, which the step does not change, so that the records left to take
\* decrease by one at every step down to none, and a record that fails again
\* is not taken again; the pass ends in the save.
C29_SinglePass ==
    [][ prog = "tess" =>
          /\ (pc = "retry" =>
                /\ failed_items' = failed_items
                /\ run' = run
                /\ idx < Len(failed_items)
                /\ idx' = idx + 1
                /\ last'[1].key = failed_items[idx + 1].item_id
                /\ pc' = IF idx' = Len(failed_items) THEN "retry_save" ELSE "retry")
          /\ ((pc' = "retry" /\ pc # "retry") =>
                /\ pc = "final"
                /\ run' = run
                /\ idx' = 0
                /\ failed_items' = failed_of(results))
          /\ (pc = "retry_save" => pc' = "done" /\ run' = run)
          /\ (pc = "done" => run' = run + 1) ]_vars

\* in a pass over two failed records the first one has failed again
C29_Witness ==
    /\ prog = "tess" /\ pc = "retry"
    /\ Len(failed_items) = 2 /\ idx = 1
    /\ last # None /\ ~last[1].skipped
    /\ \E i \in 1..Len(results) :
         /\ results[i].item_id = failed_items[1].item_id
         /\ ~results[i].success

\* C30: every iteration of the outer loop of extract_ebay_listings moves the
\* cursor forward: the step that opens an iteration, on a date line or on
\* another line, moves it by one line, the inner loops never move it back
\* behind the date line, and it never passes the line after the last, where
\* the loop ends.
C30_OuterLoopAdvances ==
    [][ /\ (el_pc = "scan" /\ el_pc' # "done") => el_i' = el_i + 1
        /\ (el_pc \in { "title", "price", "seller", "emit" }) =>
               /\ el_i' >= el_i
               /\ el_i' > el_spans'[Len(el_spans')].first
        /\ (el_pc' # "off") => el_i' <= Len(el_lines') + 1
        /\ (el_pc' = "done") => el_i' = Len(el_lines') + 1 ]_vars

\* an iteration of the outer loop has ended on the last line
C30_Witness ==
    /\ el_pc = "scan"
    /\ el_i > 1
    /\ el_i = Len(el_lines) + 1

=============================================================================
